---- MODULE Spec2Model ----
(***************************************************************************)
(* Model of dfa_reader.py: parse_dfa (validation of a raw DFA description),*)
(* DFA.delta and DFA.is_in_language (the walk over an input string).       *)
(*                                                                         *)
(* A Python dict is modelled as a sequence of <<key, value>> pairs with    *)
(* distinct keys; the order of the sequence is the order in which the dict *)
(* iterates (dict.keys(), dict.values(), "for k in d").  In Python 2 that  *)
(* order is chosen by the interpreter and is independent of the order in   *)
(* which the JSON text lists the keys, so every order is drawn.            *)
(* A Python list is a sequence; a Python str is a sequence of characters.  *)
(***************************************************************************)
EXTENDS Integers, Sequences, FiniteSets, TLC

(* ---------------- bounds of the model ---------------- *)

\* longest input string handed to is_in_language
MaxLen == 3

\* longest "Sigma" list of a raw description
MaxSigma == 2

\* most calls of parse_dfa made on one description
MaxParses == 2

\* most calls of delta and is_in_language a user makes on one DFA
MaxCalls == 2

\* characters the alphabet and the input strings are drawn from
Symbols == {"a", "b"}

\* names a raw description may declare as states
StateNames == {"q0", "q1"}

\* a state name no description declares
Undeclared == "qx"

\* the keys parse_dfa reads from the raw description
Fields == {"Sigma", "InitialState", "AcceptingStates", "States"}

(* ---------------- Python containers ---------------- *)

\* set(list)
SeqSet(s) == {s[k] : k \in 1..Len(s)}

\* dict.keys() of Python 2: the list of keys in iteration order
Keys(d) == [k \in 1..Len(d) |-> d[k][1]]

\* dict.values() of Python 2: the list of values in iteration order
Values(d) == [k \in 1..Len(d) |-> d[k][2]]

\* key in dict
HasKey(d, key) == \E k \in 1..Len(d) : d[k][1] = key

\* dict[key], for a key the dict has
Get(d, key) == d[CHOOSE k \in 1..Len(d) : d[k][1] = key][2]

\* all sequences over S of length at most n
SeqsUpTo(S, n) == UNION {[1..m -> S] : m \in 0..n}

\* all dicts with keys in K and values in V
Dicts(K, V) ==
    {d \in SeqsUpTo(K \X V, Cardinality(K)) :
        \A x, y \in 1..Len(d) : x # y => d[x][1] # d[y][1]}

(* ---------------- raw descriptions ---------------- *)

SigmaLists == SeqsUpTo(Symbols, MaxSigma)

AcceptingLists == {<<>>, <<"q0">>, <<"q1">>, <<"q0", "q1">>}

InnerDicts == Dicts(Symbols, StateNames \cup {Undeclared})

StatesDicts == Dicts(StateNames, InnerDicts)

(* ---------------- class DFA ---------------- *)

\* DFA.__init__: the object keeps the five arguments as given
DFA(states, sigma, transitions, init_state, accepting) ==
    [sigma |-> sigma, states |-> states, init_state |-> init_state,
     accepting |-> accepting, transitions |-> transitions]

\* delta looking the value up in the row of the initial state
Delta_FromInitial(d, state, value) ==
    IF HasKey(d.transitions, state) /\ HasKey(Get(d.transitions, state), value)
    THEN [raised |-> FALSE,
          result |-> Get(Get(d.transitions, d.init_state), value)]
    ELSE [raised |-> TRUE, type |-> "DeltaException",
          state |-> state, value |-> value]

\* delta staying in the given state when the lookup fails
Delta_Default(d, state, value) ==
    IF HasKey(d.transitions, state) /\ HasKey(Get(d.transitions, state), value)
    THEN [raised |-> FALSE, result |-> Get(Get(d.transitions, state), value)]
    ELSE [raised |-> FALSE, result |-> state]

\* DFA.delta: self.transitions[state][value]; a KeyError of either lookup
\* becomes a DeltaException whose message holds the state and the value
Delta(d, state, value) ==
    IF HasKey(d.transitions, state) /\ HasKey(Get(d.transitions, state), value)
    THEN [raised |-> FALSE, result |-> Get(Get(d.transitions, state), value)]
    ELSE [raised |-> TRUE, type |-> "DeltaException",
          state |-> state, value |-> value]

\* a loop that stops one symbol early
HasNext_OffByOne(w, taken) == taken < Len(w) - 1

\* "for a in string": the iterator has a symbol left after taken symbols
HasNext(w, taken) == taken < Len(w)

\* a walk that resumes where the call before it stopped
EntryState_Resume(d, previous) ==
    IF previous # "" THEN previous ELSE d.init_state

\* is_in_language, first line: curr_state = self.init_state; curr_state is
\* a local, so what the call before left in it plays no part
EntryState(d, previous) == d.init_state

\* a walk that starts with an empty path
InitialPath_Empty(curr) == <<>>

\* is_in_language, before the loop: path = [curr_state]
InitialPath(curr) == <<curr>>

\* a loop body that does not record the state
AppendPath_Skip(p, curr) == p

\* is_in_language, loop body: path.append(curr_state)
AppendPath(p, curr) == Append(p, curr)

\* a verdict taken from the initial state
Verdict_Initial(d, curr) == d.init_state \in SeqSet(d.accepting)

\* is_in_language, the first component of the returned tuple
Verdict(d, curr) == curr \in SeqSet(d.accepting)

(* ---------------- parse_dfa ---------------- *)

\* the key whose lookup raises KeyError: the reads are made in this order
FirstMissing(c) ==
    IF "Sigma" \notin DOMAIN c THEN "Sigma"
    ELSE IF "InitialState" \notin DOMAIN c THEN "InitialState"
    ELSE IF "AcceptingStates" \notin DOMAIN c THEN "AcceptingStates"
    ELSE "States"

\* except KeyError as e: raise DFAParseError("..." + e)
\* the concatenation of a str and an exception raises TypeError, so no
\* DFAParseError is ever constructed here
MissingKeyHandler(key) == [kind |-> "TypeError", check |-> "", state |-> ""]

\* except AssertionError as e: raise DFAParseError(e.message)
AssertionHandler(check, state) ==
    [kind |-> "DFAParseError", check |-> check, state |-> state]

\* the initial-state assertion left out (as under python -O)
InitOk_Skipped(init_state, states) == TRUE

\* assert init_state in states
InitOk(init_state, states) == init_state \in SeqSet(states)

\* if accepting_states: assert set(accepting_states).issubset(set(states))
AcceptingOk(accepting, states) ==
    accepting # <<>> => SeqSet(accepting) \subseteq SeqSet(states)

\* a coverage check that lets a state handle more than the alphabet
CoverageOk_Superset(transitions, sigma) ==
    SeqSet(sigma) \subseteq SeqSet(Keys(transitions))

\* assert transitions.keys() == sigma      (two lists are compared)
CoverageOk(transitions, sigma) == Keys(transitions) = sigma

\* a target check satisfied by one declared destination
TargetsOk_Any(transitions, states) ==
    SeqSet(Values(transitions)) \cap SeqSet(states) # {}

\* assert set(transitions.values()).issubset(set(states))
TargetsOk(transitions, states) ==
    SeqSet(Values(transitions)) \subseteq SeqSet(states)

\* a loop that leaves after the first state it checked
CheckStates_FirstOnly(table, sigma, states, k) ==
    IF k > Len(states) THEN [kind |-> "ok", check |-> "", state |-> ""]
    ELSE IF ~CoverageOk(Get(table, states[k]), sigma)
    THEN AssertionHandler("alphabet", states[k])
    ELSE IF ~TargetsOk(Get(table, states[k]), states)
    THEN AssertionHandler("targets", "")
    ELSE [kind |-> "ok", check |-> "", state |-> ""]

\* a loop that checks the coverage of every state before any target
CheckStates_TwoPasses(table, sigma, states, k) ==
    LET NoCover == {m \in k..Len(states) :
                       ~CoverageOk(Get(table, states[m]), sigma)}
        NoTarget == {m \in k..Len(states) :
                       ~TargetsOk(Get(table, states[m]), states)}
    IN  IF NoCover # {}
        THEN AssertionHandler("alphabet",
                 states[CHOOSE m \in NoCover : \A n \in NoCover : m <= n])
        ELSE IF NoTarget # {} THEN AssertionHandler("targets", "")
        ELSE [kind |-> "ok", check |-> "", state |-> ""]

\* for state in states: the two assertions, from the k-th state on
RECURSIVE CheckStates(_, _, _, _)
CheckStates(table, sigma, states, k) ==
    IF k > Len(states) THEN [kind |-> "ok", check |-> "", state |-> ""]
    ELSE LET state == states[k]
             transitions == Get(table, state)
         IN  IF ~CoverageOk(transitions, sigma)
             THEN AssertionHandler("alphabet", state)
             ELSE IF ~TargetsOk(transitions, states)
             THEN AssertionHandler("targets", "")
             ELSE CheckStates(table, sigma, states, k + 1)

\* a parse that takes "Sigma" out of the description (contents.pop)
ContentsAfterParse_Pop(c) == [f \in (DOMAIN c) \ {"Sigma"} |-> c[f]]

\* the description after parse_dfa: it is only read (subscripts, keys(),
\* values()), never assigned to
ContentsAfterParse(c) == c

\* parse_dfa(contents): the DFA object, or the exception that leaves it
ParseDfa(c) ==
    IF ~(Fields \subseteq DOMAIN c) THEN MissingKeyHandler(FirstMissing(c))
    ELSE LET sigma == c["Sigma"]
             init_state == c["InitialState"]
             accepting_states == c["AcceptingStates"]
             states == Keys(c["States"])
             loop == CheckStates(c["States"], sigma, states, 1)
         IN  IF ~InitOk(init_state, states)
             THEN AssertionHandler("initial", init_state)
             ELSE IF ~AcceptingOk(accepting_states, states)
             THEN AssertionHandler("accepting", "")
             ELSE IF loop.kind # "ok" THEN loop
             ELSE [kind |-> "dfa",
                   dfa |-> DFA(states, sigma, c["States"], init_state,
                               accepting_states)]

(* ---------------- state ---------------- *)

VARIABLES
    contents,    \* the raw description handed to parse_dfa
    pc,          \* where the caller is
    outcome,     \* what parse_dfa produced: a DFA or an exception
    string,      \* is_in_language: the argument
    i,           \* is_in_language: symbols the for loop has taken so far
    curr_state,  \* is_in_language: local curr_state
    path,        \* is_in_language: local path
    ret,         \* is_in_language: the returned tuple
    exc,         \* the DeltaException that left delta / is_in_language
    dstate,      \* delta called directly: argument state
    dvalue,      \* delta called directly: argument value
    dret,        \* delta called directly: the returned state
    strings,     \* main: args.strings
    done,        \* main: strings of the batch that were dealt with
    reports,     \* main: the lines printed for the strings and errors
    calls,       \* calls of delta and is_in_language made on the DFA so far
    parses       \* calls of parse_dfa made on the description so far

vars == <<contents, pc, outcome, string, i, curr_state, path, ret, exc,
          dstate, dvalue, dret, strings, done, reports, calls,
          parses>>

\* the state of main, which the class and parse_dfa never touch
mainvars == <<strings, done, reports>>

NoRet == [accepted |-> FALSE, path |-> <<>>]

NoExc == [type |-> "none", state |-> "", value |-> ""]

\* the caller holds a DFA and no call is in progress
Idle == pc \in {"ready", "returned", "raised", "delta_returned", "delta_raised"}

\* the object parse_dfa returned
dfa == outcome.dfa

\* a raw description: any subset of the four keys, each with a value
Init ==
    /\ \E F \in SUBSET Fields :
       \E sg \in SigmaLists, q \in StateNames, acc \in AcceptingLists,
          st \in StatesDicts :
          LET full == [Sigma |-> sg, InitialState |-> q,
                       AcceptingStates |-> acc, States |-> st]
          IN  contents = [f \in F |-> full[f]]
    /\ pc = "start"
    /\ outcome = [kind |-> "pending"]
    /\ string = <<>>
    /\ i = 0
    /\ curr_state = ""
    /\ path = <<>>
    /\ ret = NoRet
    /\ exc = NoExc
    /\ dstate = ""
    /\ dvalue = ""
    /\ dret = ""
    /\ strings = <<>>
    /\ done = 0
    /\ reports = <<>>
    /\ calls = 0
    /\ parses = 0

(* ---------------- operations ---------------- *)

\* dfa = parse_dfa(contents)
Parse ==
    /\ pc = "start"
    /\ outcome' = ParseDfa(contents)
    /\ pc' = IF outcome'.kind = "dfa" THEN "ready" ELSE "failed"
    /\ contents' = ContentsAfterParse(contents)
    /\ UNCHANGED <<string, i, curr_state, path, ret, exc,
                   dstate, dvalue, dret>>
    /\ UNCHANGED mainvars
    /\ UNCHANGED calls
    /\ parses' = parses + 1

\* parse_dfa(contents) called once more on the same description
Reparse ==
    /\ pc \in {"ready", "failed"}
    /\ parses < MaxParses
    /\ outcome' = ParseDfa(contents)
    /\ pc' = IF outcome'.kind = "dfa" THEN "ready" ELSE "failed"
    /\ contents' = ContentsAfterParse(contents)
    /\ parses' = parses + 1
    /\ UNCHANGED <<string, i, curr_state, path, ret, exc, dstate, dvalue,
                   dret, calls>>
    /\ UNCHANGED mainvars

\* dfa.delta(state, value), called by a user of the class
CallDelta(state, value) ==
    /\ Idle
    /\ calls < MaxCalls
    /\ LET r == Delta(dfa, state, value)
       IN  /\ pc' = IF r.raised THEN "delta_raised" ELSE "delta_returned"
           /\ dret' = IF r.raised THEN "" ELSE r.result
           /\ exc' = IF r.raised
                     THEN [type |-> r.type, state |-> r.state,
                           value |-> r.value]
                     ELSE NoExc
    /\ dstate' = state
    /\ dvalue' = value
    /\ string' = <<>>
    /\ i' = 0
    /\ curr_state' = ""
    /\ path' = <<>>
    /\ ret' = NoRet
    /\ UNCHANGED <<contents, outcome>>
    /\ UNCHANGED mainvars
    /\ calls' = calls + 1
    /\ UNCHANGED parses

\* is_in_language(w): entry, up to the loop
Enter(w) ==
    /\ string' = w
    /\ i' = 0
    /\ curr_state' = EntryState(dfa, curr_state)
    /\ path' = InitialPath(EntryState(dfa, curr_state))
    /\ pc' = "walk"
    /\ ret' = NoRet
    /\ exc' = NoExc
    /\ dstate' = ""
    /\ dvalue' = ""
    /\ dret' = ""
    /\ UNCHANGED <<contents, outcome>>
    /\ calls' = calls + 1
    /\ UNCHANGED parses

\* dfa.is_in_language(w), called by a user of the class
CallIsInLanguage(w) ==
    /\ Idle
    /\ calls < MaxCalls
    /\ Enter(w)
    /\ UNCHANGED mainvars

\* one pass of "for a in string": delta, then append; a DeltaException
\* leaves the method, and its locals are gone with the frame
LoopStep ==
    /\ pc = "walk"
    /\ HasNext(string, i)
    /\ LET a == string[i + 1]
           r == Delta(dfa, curr_state, a)
       IN  IF r.raised
           THEN /\ pc' = "raised"
                /\ exc' = [type |-> r.type, state |-> r.state,
                           value |-> r.value]
                /\ curr_state' = ""
                /\ path' = <<>>
           ELSE /\ pc' = "walk"
                /\ exc' = exc
                /\ curr_state' = r.result
                /\ path' = AppendPath(path, r.result)
    /\ i' = i + 1
    /\ UNCHANGED <<contents, outcome, string, ret, dstate, dvalue, dret>>
    /\ UNCHANGED mainvars
    /\ UNCHANGED calls
    /\ UNCHANGED parses

\* return curr_state in self.accepting, path
Return ==
    /\ pc = "walk"
    /\ ~HasNext(string, i)
    /\ ret' = [accepted |-> Verdict(dfa, curr_state), path |-> path]
    /\ pc' = "returned"
    /\ UNCHANGED <<contents, outcome, string, i, curr_state, path, exc,
                   dstate, dvalue, dret>>
    /\ UNCHANGED mainvars
    /\ UNCHANGED calls
    /\ UNCHANGED parses

Next ==
    \/ Parse
    \/ \E state \in StateNames \cup {Undeclared}, value \in Symbols :
          CallDelta(state, value)
    \/ \E w \in SeqsUpTo(Symbols, MaxLen) : CallIsInLanguage(w)
    \/ LoopStep
    \/ Return

Spec == Init /\ [][Next]_vars

(* ---------------- the example of the module docstring ---------------- *)

ExampleStates == {"q0", "q1", "q2"}

\* "States" of the example, as a table
ExampleDelta ==
    [q \in ExampleStates |->
        IF q = "q0" THEN [a |-> "q1", b |-> "q0"]
        ELSE IF q = "q1" THEN [a |-> "q1", b |-> "q2"]
        ELSE [a |-> "q2", b |-> "q2"]]

\* the orders in which a dict with the keys K may iterate
KeyOrders(K) ==
    {s \in [1..Cardinality(K) -> K] :
        \A x, y \in 1..Cardinality(K) : x # y => s[x] # s[y]}

\* the dict that holds the function f and iterates in the given order
DictOf(f, order) == [k \in 1..Len(order) |-> <<order[k], f[order[k]]>>]

\* the example as json.load hands it to parse_dfa, in every iteration
\* order its dicts may have
ExampleDescriptions ==
    {[Sigma |-> <<"a", "b">>,
      InitialState |-> "q0",
      AcceptingStates |-> <<"q2">>,
      States |-> [k \in 1..3 |->
                    <<outer[k], DictOf(ExampleDelta[outer[k]], inner[outer[k]])>>]] :
        outer \in KeyOrders(ExampleStates),
        inner \in [ExampleStates -> KeyOrders(Symbols)]}

InitExample ==
    /\ contents \in ExampleDescriptions
    /\ pc = "start"
    /\ outcome = [kind |-> "pending"]
    /\ string = <<>>
    /\ i = 0
    /\ curr_state = ""
    /\ path = <<>>
    /\ ret = NoRet
    /\ exc = NoExc
    /\ dstate = ""
    /\ dvalue = ""
    /\ dret = ""
    /\ strings = <<>>
    /\ done = 0
    /\ reports = <<>>
    /\ calls = 0
    /\ parses = 0

SpecExample == InitExample /\ [][Next]_vars

\* a call that was entered runs on: the interpreter does not stop inside
\* is_in_language
FairSpec == Spec /\ WF_vars(LoopStep) /\ WF_vars(Return)

\* parse_dfa alone, called again and again on one description
NextParse ==
    \/ Parse
    \/ Reparse

SpecParse == Init /\ [][NextParse]_vars

(* ---------------- main ---------------- *)

\* most strings on the command line
MaxBatch == 2

\* longest string on the command line
MaxWord == 2

\* characters of the command-line strings: the alphabet and one more
BatchSymbols == Symbols \cup {"c"}

\* args.strings: nargs="+" asks for at least one string
Batches ==
    {b \in SeqsUpTo(SeqsUpTo(BatchSymbols, MaxWord), MaxBatch) : b # <<>>}

\* the files main is run on: the example with its states in the listed
\* order and each row in either order, and the same without "Sigma"
MainDescriptions ==
    LET listed == {d \in ExampleDescriptions :
                      Keys(d["States"]) = <<"q0", "q1", "q2">>}
    IN  listed \cup {[f \in Fields \ {"Sigma"} |-> d[f]] : d \in listed}

InitMain ==
    /\ contents \in MainDescriptions
    /\ strings \in Batches
    /\ pc = "start"
    /\ outcome = [kind |-> "pending"]
    /\ string = <<>>
    /\ i = 0
    /\ curr_state = ""
    /\ path = <<>>
    /\ ret = NoRet
    /\ exc = NoExc
    /\ dstate = ""
    /\ dvalue = ""
    /\ dret = ""
    /\ done = 0
    /\ reports = <<>>
    /\ calls = 0
    /\ parses = 0

\* parse_dfa raised: a DFAParseError is caught by the except clause that
\* follows the loop and printed; any other exception ends main uncaught
MainParseFailed ==
    /\ pc = "failed"
    /\ IF outcome.kind = "DFAParseError"
       THEN /\ reports' = Append(reports, [string |-> <<>>, kind |-> "error"])
            /\ pc' = "main_done"
       ELSE /\ reports' = reports
            /\ pc' = "main_crashed"
    /\ UNCHANGED <<contents, outcome, string, i, curr_state, path, ret, exc,
                   dstate, dvalue, dret, strings, done>>
    /\ UNCHANGED calls
    /\ UNCHANGED parses

\* for s in args.strings: in_dfa, path = dfa.is_in_language(s)
MainCall ==
    /\ pc \in {"ready", "reported"}
    /\ done < Len(strings)
    /\ Enter(strings[done + 1])
    /\ UNCHANGED mainvars

\* is_in_language returned: the verdict for s is printed, the loop goes on
MainReport ==
    /\ pc = "returned"
    /\ reports' = Append(reports,
                     [string |-> string,
                      kind |-> IF ret.accepted THEN "in" ELSE "not_in"])
    /\ done' = done + 1
    /\ pc' = "reported"
    /\ UNCHANGED <<contents, outcome, string, i, curr_state, path, ret, exc,
                   dstate, dvalue, dret, strings>>
    /\ UNCHANGED calls
    /\ UNCHANGED parses

\* is_in_language raised: the DeltaException leaves the for loop and is
\* caught by the except clause of the try that encloses the loop
MainCatch ==
    /\ pc = "raised"
    /\ reports' = Append(reports, [string |-> string, kind |-> "error"])
    /\ pc' = "main_done"
    /\ UNCHANGED <<contents, outcome, string, i, curr_state, path, ret, exc,
                   dstate, dvalue, dret, strings, done>>
    /\ UNCHANGED calls
    /\ UNCHANGED parses

\* the for loop ran out of strings
MainEnd ==
    /\ pc \in {"ready", "reported"}
    /\ done = Len(strings)
    /\ pc' = "main_done"
    /\ UNCHANGED <<contents, outcome, string, i, curr_state, path, ret, exc,
                   dstate, dvalue, dret, strings, done, reports>>
    /\ UNCHANGED calls
    /\ UNCHANGED parses

NextMain ==
    \/ Parse
    \/ MainParseFailed
    \/ MainCall
    \/ LoopStep
    \/ Return
    \/ MainReport
    \/ MainCatch
    \/ MainEnd

SpecMain == InitMain /\ [][NextMain]_vars

(* ---------------- reference notions used by the properties ---------------- *)

\* the table entry for (s, a), read straight from the transition table
Entry(d, s, a) == Get(Get(d.transitions, s), a)

\* the positions of w that hold a symbol outside the alphabet of d
Outside(d, w) == {k \in 1..Len(w) : w[k] \notin SeqSet(d.sigma)}

\* the first such position
FirstOutside(d, w) == CHOOSE k \in Outside(d, w) : \A m \in Outside(d, w) : k <= m

\* the state the table leads to from the initial state over w[1..n]
RECURSIVE StateAfter(_, _, _)
StateAfter(d, w, n) ==
    IF n = 0 THEN d.init_state ELSE Entry(d, StateAfter(d, w, n - 1), w[n])

\* a list without repeated elements
Distinct(s) == \A x, y \in 1..Len(s) : x # y => s[x] # s[y]

\* a call of is_in_language is in progress or has ended
InWalk == pc \in {"walk", "returned", "raised"}

\* parse_dfa has ended on a description that has the four keys
ParsedComplete == pc # "start" /\ Fields \subseteq DOMAIN contents

(* ---------------- properties ---------------- *)

\* C1: the path starts at the initial state and every further element is the
\* table entry for the element before it and the symbol consumed at that
\* position, symbols being taken left to right, one per pass of the loop;
\* the returned path is the path so built.
C1_PathFollowsDelta ==
    pc \in {"walk", "returned"} =>
        /\ path # <<>>
        /\ path[1] = dfa.init_state
        /\ curr_state = path[Len(path)]
        /\ \A k \in 1..(Len(path) - 1) :
              k <= Len(string) /\ path[k + 1] = Entry(dfa, path[k], string[k])
        /\ (pc = "returned" => ret.path = path /\ i = Len(string))

C1_Witness ==
    /\ pc = "returned"
    /\ Len(string) = 3
    /\ ret.path[1] # ret.path[2]
    /\ ret.path[2] # ret.path[3]
    /\ string[1] # string[2]

\* C2: the returned path has len(w) + 1 elements, and while the walk is in
\* progress the path has one element more than the symbols consumed so far.
C2_TraceLength ==
    /\ pc = "walk" => Len(path) = i + 1
    /\ pc = "returned" => Len(ret.path) = Len(string) + 1

C2_Witness == pc = "returned" /\ Len(string) >= 2 /\ Len(ret.path) >= 3

\* C3: the returned verdict is true exactly when the last element of the
\* returned path is one of the accepting states.
C3_AcceptanceConsistency ==
    pc = "returned" =>
        (ret.accepted <=> ret.path[Len(ret.path)] \in SeqSet(dfa.accepting))

C3_Witness ==
    /\ pc = "returned"
    /\ ret.accepted
    /\ dfa.init_state \notin SeqSet(dfa.accepting)
    /\ Len(string) >= 1

\* C4: in a DFA that parse_dfa returned, delta is defined for every declared
\* state and every alphabet symbol, and its result is a declared state.
C4_Totality ==
    (pc # "start" /\ outcome.kind = "dfa") =>
        /\ \A s \in SeqSet(dfa.states), a \in SeqSet(dfa.sigma) :
              /\ ~Delta(dfa, s, a).raised
              /\ Delta(dfa, s, a).result \in SeqSet(dfa.states)
        /\ (pc \in {"delta_returned", "delta_raised"}
              /\ dstate \in SeqSet(dfa.states) /\ dvalue \in SeqSet(dfa.sigma))
           => (pc = "delta_returned" /\ dret \in SeqSet(dfa.states))

C4_Witness ==
    /\ pc = "delta_returned"
    /\ dstate \in SeqSet(dfa.states)
    /\ dvalue \in SeqSet(dfa.sigma)
    /\ dret # dstate
    /\ Len(dfa.sigma) = 2

\* C5: a declared state passes the coverage check exactly when the set of
\* its transition keys equals the set of alphabet symbols, whatever the
\* order of either; so the alphabet error is reported for a state only if
\* the two sets differ.  (Alphabets that list a symbol twice are left aside.)
C5_ExactCoverage ==
    (ParsedComplete /\ Distinct(contents["Sigma"])) =>
        /\ \A k \in 1..Len(contents["States"]) :
              LET transitions == contents["States"][k][2]
              IN  CoverageOk(transitions, contents["Sigma"])
                    <=> SeqSet(Keys(transitions)) = SeqSet(contents["Sigma"])
        /\ (outcome.kind = "DFAParseError" /\ outcome.check = "alphabet")
           => SeqSet(Keys(Get(contents["States"], outcome.state)))
                 # SeqSet(contents["Sigma"])

\* C6: a description that lacks one of the four keys makes parse_dfa end in
\* a DFAParseError, and in no other exception.
C6_MissingField ==
    (pc # "start" /\ ~(Fields \subseteq DOMAIN contents)) =>
        outcome.kind = "DFAParseError"

\* C7: a string whose first symbol outside the alphabet is at position k
\* never gets a result; the call ends in a DeltaException that names that
\* symbol and the state the table reaches over the k - 1 symbols before it,
\* after exactly k symbols were taken, with no verdict and no path.
C7_OutOfAlphabetAbort ==
    (InWalk /\ Outside(dfa, string) # {}) =>
        LET k == FirstOutside(dfa, string)
        IN  /\ pc # "returned"
            /\ i <= k
            /\ ret = NoRet
            /\ pc = "walk" => i < k
            /\ pc = "raised" =>
                  /\ i = k
                  /\ exc = [type |-> "DeltaException",
                            state |-> StateAfter(dfa, string, k - 1),
                            value |-> string[k]]
                  /\ path = <<>>

C7_Witness ==
    /\ pc = "raised"
    /\ Len(string) = 3
    /\ FirstOutside(dfa, string) = 2
    /\ exc.state # dfa.init_state

\* C8: delta, called with a state that is not declared or a symbol that is
\* not in the alphabet, raises a DeltaException carrying that state and that
\* symbol, and returns nothing.
C8_DeltaUndefined ==
    (pc \in {"delta_returned", "delta_raised"}
        /\ (dstate \notin SeqSet(dfa.states) \/ dvalue \notin SeqSet(dfa.sigma)))
    => /\ pc = "delta_raised"
       /\ exc = [type |-> "DeltaException", state |-> dstate, value |-> dvalue]
       /\ dret = ""

C8_Witness ==
    /\ pc = "delta_raised"
    /\ dstate \in SeqSet(dfa.states)
    /\ dvalue \notin SeqSet(dfa.sigma)
    /\ dfa.sigma # <<>>

\* C9: with the four keys present, an initial state that is not among the
\* declared states makes parse_dfa end in the DFAParseError of the
\* initial-state assertion; a DFA that parse_dfa returns has its initial
\* state among its states.
C9_InitialStateCheck ==
    /\ (ParsedComplete
          /\ contents["InitialState"] \notin SeqSet(Keys(contents["States"])))
       => outcome = [kind |-> "DFAParseError", check |-> "initial",
                     state |-> contents["InitialState"]]
    /\ (pc # "start" /\ outcome.kind = "dfa")
       => dfa.init_state \in SeqSet(dfa.states)

C9_Witness ==
    /\ pc = "failed"
    /\ ParsedComplete
    /\ contents["States"] # <<>>
    /\ contents["InitialState"] \notin SeqSet(Keys(contents["States"]))
    /\ outcome.check = "initial"

\* C10: a description in which some declared state has a transition to a
\* state that is not declared makes parse_dfa end in a DFAParseError; a DFA
\* that parse_dfa returns has every destination of its table among its states.
C10_UnknownTarget ==
    /\ (pc # "start" /\ "States" \in DOMAIN contents
          /\ \E k \in 1..Len(contents["States"]) :
                ~(SeqSet(Values(contents["States"][k][2]))
                     \subseteq SeqSet(Keys(contents["States"]))))
       => outcome.kind = "DFAParseError"
    /\ (pc # "start" /\ outcome.kind = "dfa")
       => \A k \in 1..Len(dfa.transitions) :
             SeqSet(Values(dfa.transitions[k][2])) \subseteq SeqSet(dfa.states)

\* C11: a non-empty accepting list that names a state that is not declared
\* makes parse_dfa end in the DFAParseError of the accepting-state
\* assertion; an empty accepting list is never the cause of a failure, and a
\* DFA with an empty accepting list returns a false verdict for every string.
C11_AcceptingCheck ==
    /\ (pc # "start" /\ {"AcceptingStates", "States"} \subseteq DOMAIN contents
          /\ contents["AcceptingStates"] # <<>>
          /\ ~(SeqSet(contents["AcceptingStates"])
                  \subseteq SeqSet(Keys(contents["States"]))))
       => outcome = [kind |-> "DFAParseError", check |-> "accepting",
                     state |-> ""]
    /\ (ParsedComplete /\ contents["AcceptingStates"] = <<>>)
       => ~(outcome.kind = "DFAParseError" /\ outcome.check = "accepting")
    /\ (pc = "returned" /\ dfa.accepting = <<>>) => ~ret.accepted

\* C12: for the empty string the loop makes no pass: the returned path is
\* the one-element list of the initial state and the verdict tells whether
\* the initial state is an accepting state.
C12_EmptyString ==
    (pc = "returned" /\ string = <<>>) =>
        /\ i = 0
        /\ ret.path = <<dfa.init_state>>
        /\ ret.accepted <=> dfa.init_state \in SeqSet(dfa.accepting)

C12_Witness ==
    /\ pc = "returned"
    /\ string = <<>>
    /\ ret.accepted
    /\ Len(dfa.states) = 2

\* the string w contains "ab"
ContainsAb(w) == \E k \in 1..(Len(w) - 1) : w[k] = "a" /\ w[k + 1] = "b"

\* C13: parse_dfa accepts the example of the docstring, and the verdict for
\* a string over {a, b} is true exactly when the string contains "ab"; "ab"
\* gives [q0, q1, q2], "ba" gives [q0, q0, q1], "aab" gives [q0, q1, q1, q2].
C13_ExampleLanguage ==
    pc # "start" =>
        /\ outcome.kind = "dfa"
        /\ pc = "returned" =>
              /\ ret.accepted <=> ContainsAb(string)
              /\ string = <<"a", "b">> => ret.path = <<"q0", "q1", "q2">>
              /\ string = <<"b", "a">> => ret.path = <<"q0", "q0", "q1">>
              /\ string = <<"a", "a", "b">>
                    => ret.path = <<"q0", "q1", "q1", "q2">>

\* the number of the check whose failure ended parse_dfa, 0 for none: 1 is
\* the failure raised for a missing key, 2 to 5 the four assertions
ReportedCheck(o) ==
    IF o.kind = "dfa" THEN 0
    ELSE IF o.kind = "TypeError" THEN 1
    ELSE IF o.check = "initial" THEN 2
    ELSE IF o.check = "accepting" THEN 3
    ELSE IF o.check = "alphabet" THEN 4
    ELSE 5

\* the positions, in the iteration order of "States", of the declared
\* states that fail the coverage assertion, and of those that fail the
\* target assertion
CoverageFailures(c) ==
    {k \in 1..Len(c["States"]) : ~CoverageOk(c["States"][k][2], c["Sigma"])}

TargetFailures(c) ==
    {k \in 1..Len(c["States"]) :
        ~TargetsOk(c["States"][k][2], Keys(c["States"]))}

\* the lowest-numbered check that the description violates, 0 for none
LowestViolated(c) ==
    IF ~(Fields \subseteq DOMAIN c) THEN 1
    ELSE IF ~InitOk(c["InitialState"], Keys(c["States"])) THEN 2
    ELSE IF ~AcceptingOk(c["AcceptingStates"], Keys(c["States"])) THEN 3
    ELSE IF CoverageFailures(c) # {} THEN 4
    ELSE IF TargetFailures(c) # {} THEN 5
    ELSE 0

\* the same with checks 4 and 5 taken state by state: the first state, in
\* iteration order, that fails either decides, coverage before targets
FirstViolated(c) ==
    IF ~(Fields \subseteq DOMAIN c) THEN 1
    ELSE IF ~InitOk(c["InitialState"], Keys(c["States"])) THEN 2
    ELSE IF ~AcceptingOk(c["AcceptingStates"], Keys(c["States"])) THEN 3
    ELSE LET F == CoverageFailures(c) \cup TargetFailures(c)
         IN  IF F = {} THEN 0
             ELSE IF (CHOOSE k \in F : \A m \in F : k <= m)
                        \in CoverageFailures(c)
             THEN 4 ELSE 5

\* C14 as stated: the failure reported is that of the lowest-numbered check
\* the description violates; a coverage failure of any state is reported
\* before a target failure of any state.
C14_LowestCheckFirst ==
    pc # "start" => ReportedCheck(outcome) = LowestViolated(contents)

\* C14, amended: checks 1, 2, 3 come first in that order; checks 4 and 5 are
\* made state by state in the iteration order of "States", coverage before
\* targets for the same state, so the first state that fails either of them
\* decides the error, and an alphabet error names that state.
C14_CheckOrder ==
    pc # "start" =>
        /\ ReportedCheck(outcome) = FirstViolated(contents)
        /\ ReportedCheck(outcome) = 4 =>
              LET F == CoverageFailures(contents) \cup TargetFailures(contents)
              IN  outcome.state
                     = contents["States"][CHOOSE k \in F : \A m \in F : k <= m][1]

C14_Witness ==
    /\ pc = "failed"
    /\ ParsedComplete
    /\ outcome.check = "targets"
    /\ CoverageFailures(contents) = {2}
    /\ TargetFailures(contents) = {1}

\* C15: when main has ended on a batch for a DFA it parsed, every string of
\* the batch has its line: an error for a string with a symbol outside the
\* alphabet, and the verdict for every other string, later ones included.
C15_BatchIsolation ==
    (pc = "main_done" /\ outcome.kind = "dfa") =>
        /\ Len(reports) = Len(strings)
        /\ \A k \in 1..Len(strings) :
              /\ reports[k].string = strings[k]
              /\ reports[k].kind = "error" <=> Outside(dfa, strings[k]) # {}

\* the path the table gives for w[1..m], from the initial state
RECURSIVE PathOf(_, _, _)
PathOf(d, w, m) ==
    IF m = 0 THEN <<d.init_state>>
    ELSE Append(PathOf(d, w, m - 1), StateAfter(d, w, m))

\* what a call ends with, as a function of the DFA and its arguments only
ResultOf(d, w) ==
    [accepted |-> StateAfter(d, w, Len(w)) \in SeqSet(d.accepting),
     path |-> PathOf(d, w, Len(w))]

FailureOf(d, w) ==
    [type |-> "DeltaException",
     state |-> StateAfter(d, w, FirstOutside(d, w) - 1),
     value |-> w[FirstOutside(d, w)]]

\* a call of delta or is_in_language is in progress or has ended
CallPcs == {"walk", "returned", "raised", "delta_returned", "delta_raised"}

\* how a call ended is fixed by the DFA and the arguments, whatever calls
\* were made before it
OutcomeFixed ==
    /\ (pc = "returned" /\ Outside(dfa, string) = {})
          => ret = ResultOf(dfa, string)
    /\ (pc = "raised" /\ Outside(dfa, string) # {})
          => exc = FailureOf(dfa, string)
    /\ (pc = "walk" /\ i = 0)
          => (curr_state = dfa.init_state /\ path = <<dfa.init_state>>)
    /\ (pc = "delta_returned" /\ HasKey(dfa.transitions, dstate)
          /\ HasKey(Get(dfa.transitions, dstate), dvalue))
          => dret = Entry(dfa, dstate, dvalue)

\* C16: no step of delta or is_in_language, returning or raising, changes
\* the DFA; and the outcome of every call - the first on the DFA or a later
\* one, after calls that returned or raised - is the one the DFA and the
\* arguments fix: the walk starts at the initial state with a fresh path
\* and delta(s, a) gives the same state every time.
C16_ImmutableDeterministic ==
    /\ [][pc' \in CallPcs => (outcome' = outcome /\ contents' = contents)]_vars
    /\ [](pc \in CallPcs => OutcomeFixed)

C16_Witness ==
    /\ calls = 2
    /\ pc = "returned"
    /\ Len(string) = 2
    /\ ret.path[3] # dfa.init_state
    /\ ret.accepted

\* C17: parse_dfa leaves the description as it was, whether it returns or
\* raises; a further parse_dfa of the same description ends as the one
\* before it did, with an equal DFA or the same error; and a parse_dfa that
\* raised has returned no DFA.
C17_ValidatorPure ==
    /\ [][contents' = contents]_vars
    /\ [][(pc # "start" /\ parses' = parses + 1) => outcome' = outcome]_vars
    /\ [](pc = "failed" => outcome.kind \in {"DFAParseError", "TypeError"})

C17_Witness ==
    /\ parses = 2
    /\ pc = "failed"
    /\ outcome.kind = "DFAParseError"
    /\ outcome.check = "alphabet"
    /\ outcome.state = "q1"

\* C18: a call of is_in_language ends, whatever cycles the table has: it
\* never takes more than len(w) symbols, it returns after exactly len(w)
\* of them, or raises at the first symbol that has no transition.
C18_Termination ==
    /\ (pc = "walk") ~> (pc \in {"returned", "raised"})
    /\ [](InWalk =>
            /\ i <= Len(string)
            /\ pc = "returned" => i = Len(string)
            /\ pc = "raised" =>
                  /\ Outside(dfa, string) # {}
                  /\ i = FirstOutside(dfa, string))

C18_Witness ==
    /\ pc = "returned"
    /\ i = 3
    /\ ret.path[1] = ret.path[3]
    /\ ret.path[1] # ret.path[2]

\* C19: while is_in_language walks a string over the alphabet of a DFA that
\* parse_dfa returned, curr_state and every element of the path are declared
\* states, and no DeltaException is raised.
C19_WalkClosure ==
    (InWalk /\ Outside(dfa, string) = {}) =>
        /\ pc # "raised"
        /\ curr_state \in SeqSet(dfa.states)
        /\ \A k \in 1..Len(path) : path[k] \in SeqSet(dfa.states)
        /\ \A k \in 1..Len(ret.path) : ret.path[k] \in SeqSet(dfa.states)

C19_Witness ==
    /\ pc = "walk"
    /\ i = 2
    /\ Len(string) = 3
    /\ Outside(dfa, string) = {}
    /\ curr_state # dfa.init_state
    /\ Len(dfa.states) = 2

====
